---- MODULE Spec2Model ----
(***************************************************************************)
(* The client-side batched-analysis pipeline of the stock keyword          *)
(* generator front end: the Work Item Store of the mounted analysis page   *)
(* (imagesWithStatus / videosWithStatus / textsWithStatus), the Batch      *)
(* Scheduler (analyzeAll* + process*Chunk), the Single-Item Analyzer       *)
(* (analyzeImage / analyzeVideo / analyzeText), the Shared Result Store    *)
(* (AppContext reducer) and its persistence to localStorage.               *)
(*                                                                         *)
(* A handler body between two awaits is one atomic action (the event loop  *)
(* runs it to the next suspension point).  A handler reads the component   *)
(* state of the render it was created in: an operation in flight carries   *)
(* the copies it closed over (the selection, the results list).            *)
(* Functional updates  setX(prev => ...)  read the current store.          *)
(***************************************************************************)
EXTENDS Integers, Sequences, FiniteSets, Bags, TLC

VARIABLES
  page,          \* which analysis page is mounted: "image", "video", "text"
  phase,         \* AppProvider start-up: "boot", "hydrating", "ready"
  storage,       \* localStorage 'aiKeywordGenerator': results list per content type
  bootStorage,   \* what storage held when the application started (kept during start-up)
  results,       \* Shared Result Store: state.<type>Analysis.results per content type
  items,         \* Work Item Store of the mounted page
  nextId,        \* number of ids created so far
  runs,          \* batch runs in flight (analyzeAll*), a bag of run records
  singles,       \* single-item analyses in flight, a bag of request records
  chunkProgress, \* { currentChunk, totalChunks, isProcessing }
  gen,           \* UploadTable.isGeneratingMetadata of the mounted table instance
  netCalls,      \* fetches issued so far
  uploads,       \* handleFiles invocations in flight and the frames of the videos added
  merged,        \* history: the record groups the chunk responses produced
  svc,           \* AI service selection of the mounted page: keys, stored, selected
  ev             \* the step just taken (what the last handler did)

vars == <<page, phase, storage, bootStorage, results, items, nextId, runs,
          singles, chunkProgress, gen, netCalls, uploads, merged, svc, ev>>

----------------------------------------------------------------------------
\* Bounds of the model.
MaxIds == 3
MaxCalls == 2

\* Program constants.
chunkSize == 2

Kinds == {"image", "video", "text"}

\* The display name of the k-th file the user adds: the first two files differ in
\* name, every later file repeats the name of the file two before it.
FileName(k) == IF k % 2 = 1 THEN "a" ELSE "b"
NoError == "null"
NoResult == <<>>

MsgNoResults == "No results received"
MsgAnalysisFailed == "Analysis failed"
MsgProvider == "Provider error"
MsgBatch == "Batch failed"
MsgNetwork == "Network error"
MsgDuration == "Could not determine video duration"

\* What the analysis service returns for a successful item.
ProviderResult == [title |-> "T1", category |-> "Animals", raw_response |-> "raw"]

\* The projection of a provider result the handlers store ({title, keywords, ...}).
ResultOf(r) == <<[title |-> r.title, category |-> r.category, raw_response |-> r.raw_response]>>

NewItem(id, name, status, error) ==
  [id |-> id, name |-> name, status |-> status, result |-> NoResult, error |-> error]

EmptyLists == [k \in Kinds |-> <<>>]
OldRecord == [id |-> 0, status |-> "ok", result |-> ResultOf(ProviderResult), error |-> NoError]

IdsOf(seq) == {seq[i].id : i \in DOMAIN seq}
HasId(seq, id) == \E i \in DOMAIN seq : seq[i].id = id
ItemById(seq, id) == seq[CHOOSE i \in DOMAIN seq : seq[i].id = id]

\* One copy of x added to / taken from a bag of operations in flight.
Put(bag, x) == bag (+) SetToBag({x})
Take(bag, x) == bag (-) SetToBag({x})

IdleProgress == [currentChunk |-> 0, totalChunks |-> 0, isProcessing |-> FALSE]

----------------------------------------------------------------------------
\* Shared Result Store.

\* appReducer SET_*_DATA: the slice of one content type takes the payload's fields.
SetData(res, kind, payload) == [res EXCEPT ![kind] = payload]

\* setImageData({ results: [...state.imageAnalysis.results, ...newResults] }): the
\* list the handler closed over, followed by the new records.
MergeInto(res, kind, snap, newRecords) == SetData(res, kind, snap \o newRecords)

\* buildPersistableState: the results of every content type.
Persistable(res) == [k \in Kinds |-> res[k]]

----------------------------------------------------------------------------
\* Start-up of AppProvider.

\* The AI services offered by a page (the source lists seven; two of them are
\* enough to tell the default from another one).
Providers == {"openai", "gemini"}
NoStored == "none"

\* useState initialiser of selectedService: the id kept in localStorage under the
\* page's key, else the page's default.
DefaultService(kind) == IF kind = "video" THEN "gemini" ELSE "openai"
InitialService(stored, kind) == IF stored # NoStored THEN stored ELSE DefaultService(kind)

\* No handleFiles invocation is in flight and no video was added.
NoUploads == [calls |-> EmptyBag, frames |-> <<>>]

\* No history of merges is kept.
NoHistory == [on |-> FALSE, groups |-> {}, n |-> 0]

\* Service state of a page constructed with the configured keys and the stored id.
ServiceState(keys, stored, kind) ==
  [keys |-> keys, stored |-> stored, selected |-> InitialService(stored, kind)]

Init ==
  /\ page \in Kinds
  /\ svc = ServiceState(Providers, NoStored, page)
  /\ phase = "boot"
  /\ storage \in [Kinds -> {<<>>, <<OldRecord>>}]
  /\ bootStorage = storage
  /\ results = EmptyLists
  /\ items = <<>>
  /\ nextId = 0
  /\ runs = EmptyBag
  /\ singles = EmptyBag
  /\ chunkProgress = IdleProgress
  /\ gen = FALSE
  /\ netCalls = 0
  /\ uploads = NoUploads
  /\ merged = NoHistory
  /\ ev = [op |-> "Init"]

\* What the persist effect leaves in localStorage for store state res.
PersistEffect(res) == Persistable(res)

\* First commit: the load effect runs up to its first await (the dynamic import),
\* then the persist effect runs with the initial state.
Mount ==
  /\ phase = "boot"
  /\ phase' = "hydrating"
  /\ storage' = PersistEffect(results)
  /\ ev' = [op |-> "Mount"]
  /\ UNCHANGED <<uploads, merged, svc, page, bootStorage, results, items, nextId, runs, singles,
                 chunkProgress, gen, netCalls>>

\* The state LOAD_PERSISTED_DATA leaves, from the parsed localStorage value.
LoadPersisted(parsed) == [k \in Kinds |-> parsed[k]]

\* The load effect resumes after its awaits: reads localStorage and dispatches
\* LOAD_PERSISTED_DATA; the state change runs the persist effect again.
Hydrate ==
  /\ phase = "hydrating"
  /\ phase' = "ready"
  /\ results' = LoadPersisted(storage)
  /\ storage' = PersistEffect(results')
  /\ bootStorage' = EmptyLists
  /\ ev' = [op |-> "Hydrate", before |-> bootStorage]
  /\ UNCHANGED <<uploads, merged, svc, page, items, nextId, runs, singles, chunkProgress, gen, netCalls>>

----------------------------------------------------------------------------
\* Work Item Store: the functional updates of imagesWithStatus.

Ready == phase = "ready"

\* A map that marks every item of the store, whatever the chunk.
MarkProcessingAll(prev, ids) ==
  [i \in DOMAIN prev |-> [prev[i] EXCEPT !.status = "processing", !.error = NoError]]

\* prev.map(img => chunk.some(c => c.id === img.id)
\*                   ? { ...img, status: 'processing', error: null } : img)
MarkProcessing(prev, ids) ==
  [i \in DOMAIN prev |->
     IF prev[i].id \in ids
       THEN [prev[i] EXCEPT !.status = "processing", !.error = NoError]
       ELSE prev[i]]

\* prev.map(img => img.id === id ? { ...img, status: 'completed', result } : img)
SetCompleted(prev, id, result) ==
  [i \in DOMAIN prev |->
     IF prev[i].id = id
       THEN [prev[i] EXCEPT !.status = "completed", !.result = result]
       ELSE prev[i]]

\* prev.map(img => img.id === id ? { ...img, status: 'error', error } : img)
SetError(prev, id, msg) ==
  [i \in DOMAIN prev |->
     IF prev[i].id = id
       THEN [prev[i] EXCEPT !.status = "error", !.error = msg]
       ELSE prev[i]]

\* A map that fails every item of the chunk, whatever its status.
FailChunkAny(prev, ids, msg) ==
  [i \in DOMAIN prev |->
     IF prev[i].id \in ids THEN [prev[i] EXCEPT !.status = "error", !.error = msg] ELSE prev[i]]

\* prev.map(img => chunk.some(c => c.id === img.id) && img.status === 'processing'
\*                   ? { ...img, status: 'error', error } : img)
FailChunk(prev, ids, msg) ==
  [i \in DOMAIN prev |->
     IF prev[i].id \in ids /\ prev[i].status = "processing"
       THEN [prev[i] EXCEPT !.status = "error", !.error = msg]
       ELSE prev[i]]

\* FailProcessing without its effect: the catch of the run leaves the items as
\* they are.  C1 does not hold of the pipeline with it.
FailProcessingKeeps(prev, msg) == prev

\* prev.map(img => img.status === 'processing'
\*                   ? { ...img, status: 'error', error: error.message } : img)
FailProcessing(prev, msg) ==
  [i \in DOMAIN prev |->
     IF prev[i].status = "processing"
       THEN [prev[i] EXCEPT !.status = "error", !.error = msg]
       ELSE prev[i]]

\* prev.map(img => updatedImages.find(u => u.id === img.id) || img)
ReplaceUpdated(prev, updated) ==
  [i \in DOMAIN prev |->
     IF HasId(updated, prev[i].id) THEN ItemById(updated, prev[i].id) ELSE prev[i]]

\* prev.filter(img => img.id !== imageId)
RemoveId(prev, id) == SelectSeq(prev, LAMBDA it : it.id # id)

\* { ...img.result, ...updatedMetadata }: the fields of the edit form over the result.
EditResult(result, patch) ==
  IF result = NoResult
    THEN <<[title |-> patch.title, category |-> patch.category, raw_response |-> "undefined"]>>
    ELSE <<[result[1] EXCEPT !.title = patch.title, !.category = patch.category]>>

\* A map that merges the patch into every item, whatever its id.
UpdateMetadataAll(prev, id, patch) ==
  [i \in DOMAIN prev |-> [prev[i] EXCEPT !.result = EditResult(prev[i].result, patch)]]

\* prev.map(img => img.id === imageId ? { ...img, result: {...} } : img)
UpdateMetadata(prev, id, patch) ==
  [i \in DOMAIN prev |->
     IF prev[i].id = id
       THEN [prev[i] EXCEPT !.result = EditResult(prev[i].result, patch)]
       ELSE prev[i]]

Patches == [title : {"T1", "T2"}, category : {"Animals"}]

\* The table instance is mounted while the store holds an item; a new instance
\* starts with isGeneratingMetadata = false, and the runs started from an
\* unmounted instance can no longer reset its flag.
GenAfter(its) == IF Len(its) = 0 THEN FALSE ELSE gen
Orphan(r) == [r EXCEPT !.owner = FALSE]
RECURSIVE OrphanAll(_, _)
OrphanAll(bag, S) ==
  IF S = {} THEN EmptyBag
  ELSE LET r == CHOOSE x \in S : TRUE IN
       OrphanAll(bag, S \ {r}) (+) [x \in {Orphan(r)} |-> CopiesIn(r, bag)]
RunsAfter(its) == IF Len(its) = 0 THEN OrphanAll(runs, BagToSet(runs)) ELSE runs

\* handleFiles: one accepted file becomes one item, appended to the store.  A video
\* whose frame extraction fails is appended with status error.
AddFile(broken) ==
  /\ Ready
  /\ nextId < MaxIds
  /\ broken => page = "video"
  /\ nextId' = nextId + 1
  /\ items' = Append(items,
                IF broken THEN NewItem(nextId + 1, FileName(nextId + 1), "error", MsgDuration)
                          ELSE NewItem(nextId + 1, FileName(nextId + 1), "pending", NoError))
  /\ ev' = [op |-> "Add", ids |-> {nextId + 1}]
  /\ UNCHANGED <<uploads, merged, svc, page, phase, storage, bootStorage, results, runs, singles,
                 chunkProgress, gen, netCalls>>

\* removeImage / removeVideo / removeTextPrompt.
Remove(id) ==
  /\ Ready
  /\ HasId(items, id)
  /\ items' = RemoveId(items, id)
  /\ gen' = GenAfter(items')
  /\ runs' = RunsAfter(items')
  /\ ev' = [op |-> "Remove", ids |-> {id}]
  /\ UNCHANGED <<uploads, merged, svc, page, phase, storage, bootStorage, results, nextId, singles,
                 chunkProgress, netCalls>>

\* UploadTable saveEdit -> updateImageMetadata; the edit button of a row is enabled
\* only while the item is completed.
Edit(id, patch) ==
  /\ Ready
  /\ HasId(items, id)
  /\ ItemById(items, id).status = "completed"
  /\ items' = UpdateMetadata(items, id, patch)
  /\ ev' = [op |-> "Edit", ids |-> {id}]
  /\ UNCHANGED <<uploads, merged, svc, page, phase, storage, bootStorage, results, nextId, runs, singles,
                 chunkProgress, gen, netCalls>>

----------------------------------------------------------------------------
\* Batch Scheduler: analyzeAllImages / analyzeAllVideos, processImageChunk /
\* processVideoChunk.

Min(a, b) == IF a < b THEN a ELSE b

\* Math.ceil(n / d)
CeilDiv(n, d) == (n + d - 1) \div d

\* Eligible without the failed items.  C8 does not hold of the pipeline with it.
EligiblePendingOnly(its) == SelectSeq(its, LAMBDA it : it.status = "pending")

\* imagesWithStatus.filter(img => img.status === 'pending' || img.status === 'error')
Eligible(its) == SelectSeq(its, LAMBDA it : it.status = "pending" \/ it.status = "error")

\* ChunkAt with a slice one item too long.  C7 does not hold of the pipeline
\* with it.
ChunkAtWide(todo, i) == SubSeq(todo, i + 1, Min(i + chunkSize + 1, Len(todo)))

\* imagesToProcess.slice(i, i + chunkSize), i the 0-based offset of the loop
ChunkAt(todo, i) == SubSeq(todo, i + 1, Min(i + chunkSize, Len(todo)))

\* Math.floor(i / chunkSize) + 1
ChunkNumber(i) == (i \div chunkSize) + 1

\* The batch response: success flag, error text (NoError when absent), and under
\* each display name "ok", "fail" or "missing" (no entry, or an empty list).
Entries == {"ok", "fail", "missing"}
NamesOf(chunk) == {chunk[i].name : i \in DOMAIN chunk}
WellFormed(chunk) ==
  {[success |-> TRUE, error |-> NoError, results |-> e] : e \in [NamesOf(chunk) -> Entries]}
Failed(chunk) ==
  {[success |-> FALSE, error |-> m, results |-> [n \in NamesOf(chunk) |-> "missing"]] :
     m \in {NoError, MsgBatch}}
BatchResponses(chunk) == WellFormed(chunk) \cup Failed(chunk)

\* UpdatedItem without the branch for a missing entry: the item is handed back
\* as the run selected it.  C6 does not hold of the pipeline with it.
UpdatedItemSkipsMissing(img, data) ==
  LET e == data.results[img.name] IN
  IF e = "ok"
    THEN [img EXCEPT !.status = "completed", !.result = ResultOf(ProviderResult)]
    ELSE IF e = "fail"
      THEN [img EXCEPT !.status = "error", !.error = MsgProvider]
      ELSE img

\* chunk.map(img => ...): the item the handler builds from the item of the selection.
UpdatedItem(img, data) ==
  LET e == data.results[img.name] IN
  IF e = "ok"
    THEN [img EXCEPT !.status = "completed", !.result = ResultOf(ProviderResult)]
    ELSE IF e = "fail"
      THEN [img EXCEPT !.status = "error", !.error = MsgProvider]
      ELSE [img EXCEPT !.status = "error", !.error = MsgNoResults]

\* The record pushed to newResults for the item.
ChunkRecord(img, data) ==
  LET e == data.results[img.name] IN
  IF e = "ok"
    THEN [id |-> img.id, status |-> "ok", result |-> ResultOf(ProviderResult), error |-> NoError]
    ELSE IF e = "fail"
      THEN [id |-> img.id, status |-> "error", result |-> NoResult, error |-> MsgProvider]
      ELSE [id |-> img.id, status |-> "error", result |-> NoResult, error |-> MsgNoResults]

UpdatedItems(chunk, data) == [i \in DOMAIN chunk |-> UpdatedItem(chunk[i], data)]
ChunkRecords(chunk, data) == [i \in DOMAIN chunk |-> ChunkRecord(chunk[i], data)]

\* data.error || 'Analysis failed'
ChunkErrorText(data) == IF data.error = NoError THEN MsgAnalysisFailed ELSE data.error

\* The store after processImageChunk handled the response.
ItemsAfterChunk(prev, chunk, data) ==
  IF data.success
    THEN ReplaceUpdated(prev, UpdatedItems(chunk, data))
    ELSE FailChunk(prev, IdsOf(chunk), ChunkErrorText(data))

\* A merge that dispatches one update per record and yields after the first.
ResultsAfterChunkFirst(res, kind, snap, chunk, data) ==
  IF data.success /\ Len(chunk) > 0
    THEN MergeInto(res, kind, snap, <<ChunkRecords(chunk, data)[1]>>)
    ELSE res

\* The shared results after processImageChunk handled the response.
ResultsAfterChunk(res, kind, snap, chunk, data) ==
  IF data.success /\ Len(chunk) > 0
    THEN MergeInto(res, kind, snap, ChunkRecords(chunk, data))
    ELSE res

\* History of the merges. When it is switched on, every record a chunk response
\* produces carries the number of that response (the records of two responses are
\* different objects even when their fields are equal), and the history keeps
\* the group of records of each response (newResults).
Stamp(hist, rec) ==
  [id |-> rec.id, status |-> rec.status, result |-> rec.result, error |-> rec.error,
   from |-> hist.n + 1]

Stamped(hist, res, kind, snap, chunk, data) ==
  IF hist.on /\ data.success /\ Len(chunk) > 0
    THEN [res EXCEPT ![kind] =
            [k \in DOMAIN res[kind] |->
               IF k > Len(snap) THEN Stamp(hist, res[kind][k]) ELSE res[kind][k]]]
    ELSE res

Recorded(hist, chunk, data) ==
  IF hist.on /\ data.success /\ Len(chunk) > 0
    THEN [hist EXCEPT
            !.groups = @ \cup {{Stamp(hist, ChunkRecords(chunk, data)[k]) : k \in DOMAIN chunk}},
            !.n = @ + 1]
    ELSE hist

\* Fetches the runs in flight still have to issue, and what is left of the
\* model's budget of fetches.
ChunksLeft(r) == CeilDiv(Len(r.todo), chunkSize) - ChunkNumber(r.i)
RECURSIVE SumLeft(_)
SumLeft(S) ==
  IF S = {} THEN 0
  ELSE LET r == CHOOSE x \in S : TRUE IN
       ChunksLeft(r) * CopiesIn(r, runs) + SumLeft(S \ {r})
Budget == MaxCalls - netCalls - SumLeft(BagToSet(runs))

\* What a run's return leaves for the properties: how it ended, the selection,
\* the chunk count, whether every response was a well-formed success, the results
\* list the run closed over.
RunSummary(r, how, ok) ==
  [how |-> how, sel |-> IdsOf(r.todo), chunks |-> CeilDiv(Len(r.todo), chunkSize),
   submitted |-> ChunkNumber(r.i), allOk |-> ok, before |-> r.snap]

NewRun(todo, viaTable) ==
  [pc |-> "fetch", todo |-> todo, i |-> 0, snap |-> results[page],
   owner |-> viaTable, allOk |-> TRUE, service |-> svc.selected]

\* analyzeAllImages up to the first await: selection, progress, first chunk marked
\* processing and submitted.  viaTable: invoked by the table's Generate Metadata
\* button (handleGenerateMetadata sets isGeneratingMetadata around the call).
BatchBody(viaTable) ==
  LET todo == Eligible(items) IN
  IF Len(todo) = 0
    THEN /\ ev' = [op |-> "BatchReturn", alert |-> TRUE, returned |-> TRUE,
                   run |-> [how |-> "empty", sel |-> {}, chunks |-> 0, submitted |-> 0,
                            allOk |-> TRUE, before |-> results[page]]]
         /\ UNCHANGED <<items, results, storage, runs, chunkProgress, gen, netCalls>>
    ELSE /\ CeilDiv(Len(todo), chunkSize) <= Budget
         /\ chunkProgress' = [currentChunk |-> ChunkNumber(0),
                              totalChunks |-> CeilDiv(Len(todo), chunkSize),
                              isProcessing |-> TRUE]
         /\ items' = MarkProcessing(items, IdsOf(ChunkAt(todo, 0)))
         /\ netCalls' = netCalls + 1
         /\ runs' = Put(runs, NewRun(todo, viaTable))
         /\ gen' = IF viaTable THEN TRUE ELSE gen
         /\ ev' = [op |-> "BatchStart", ids |-> IdsOf(todo), service |-> svc.selected]
         /\ UNCHANGED <<results, storage>>

\* The Generate Metadata button: rendered with the table, disabled while
\* isGeneratingMetadata or while no item is pending.
GenerateEnabled ==
  /\ Len(items) > 0
  /\ ~gen
  /\ \E i \in DOMAIN items : items[i].status = "pending"

GenerateClick ==
  /\ Ready
  /\ page \in {"image", "video"}
  /\ GenerateEnabled
  /\ BatchBody(TRUE)
  /\ UNCHANGED <<uploads, merged, svc, page, phase, bootStorage, nextId, singles>>

\* A well-formed success response in which every item of the chunk was analysed.
AllAnalysed(chunk, data) ==
  data.success /\ \A i \in DOMAIN chunk : data.results[chunk[i].name] = "ok"

\* The loop after a chunk: the delay when chunks remain, else the return.
AfterChunk(r, ok, chunk, data) ==
  IF r.i + chunkSize < Len(r.todo)
    THEN /\ runs' = Put(Take(runs, r), [r EXCEPT !.pc = "delay", !.allOk = ok])
         /\ ev' = [op |-> "ChunkResponse", chunk |-> IdsOf(chunk), data |-> data,
                   returned |-> FALSE]
         /\ UNCHANGED <<chunkProgress, gen>>
    ELSE /\ runs' = Take(runs, r)
         /\ chunkProgress' = IdleProgress
         /\ gen' = IF r.owner THEN FALSE ELSE gen
         /\ ev' = [op |-> "ChunkResponse", chunk |-> IdsOf(chunk), data |-> data,
                   returned |-> TRUE, run |-> RunSummary(r, "done", ok)]

\* processImageChunk resumes with the parsed response.
ChunkResponse(r) ==
  LET chunk == ChunkAt(r.todo, r.i) IN
  /\ BagIn(r, runs)
  /\ r.pc = "fetch"
  /\ \E data \in BatchResponses(chunk) :
       /\ items' = ItemsAfterChunk(items, chunk, data)
       /\ results' = Stamped(merged, ResultsAfterChunk(results, page, r.snap, chunk, data),
                             page, r.snap, chunk, data)
       /\ storage' = PersistEffect(results')
       /\ merged' = Recorded(merged, chunk, data)
       /\ AfterChunk(r, r.allOk /\ AllAnalysed(chunk, data), chunk, data)
  /\ UNCHANGED <<uploads, svc, page, phase, bootStorage, nextId, singles, netCalls>>

\* fetch or response.json() throws: processImageChunk rejects and the catch of
\* analyzeAllImages runs.
ChunkThrow(r) ==
  /\ BagIn(r, runs)
  /\ r.pc = "fetch"
  /\ items' = FailProcessing(items, MsgNetwork)
  /\ chunkProgress' = IdleProgress
  /\ runs' = Take(runs, r)
  /\ gen' = IF r.owner THEN FALSE ELSE gen
  /\ ev' = [op |-> "ChunkThrow", chunk |-> IdsOf(ChunkAt(r.todo, r.i)), returned |-> TRUE,
            run |-> RunSummary(r, "caught", FALSE)]
  /\ UNCHANGED <<uploads, merged, svc, page, phase, storage, bootStorage, results, nextId, singles, netCalls>>

\* The inter-chunk delay elapses: the next iteration sets the progress, marks the
\* next chunk processing and submits it.
DelayElapsed(r) ==
  LET j == r.i + chunkSize IN
  /\ BagIn(r, runs)
  /\ r.pc = "delay"
  /\ chunkProgress' = [chunkProgress EXCEPT !.currentChunk = ChunkNumber(j)]
  /\ items' = MarkProcessing(items, IdsOf(ChunkAt(r.todo, j)))
  /\ netCalls' = netCalls + 1
  /\ runs' = Put(Take(runs, r), [r EXCEPT !.pc = "fetch", !.i = j])
  /\ ev' = [op |-> "ChunkStart", ids |-> IdsOf(ChunkAt(r.todo, j)), service |-> r.service]
  /\ UNCHANGED <<uploads, merged, svc, page, phase, storage, bootStorage, results, nextId, singles, gen>>

----------------------------------------------------------------------------
\* Single-Item Analyzer: analyzeImage / analyzeVideo / analyzeText.

\* What a single-item request can end with: results[0].success, results[0] with
\* success false, no results, or a thrown fetch / JSON error.
SingleOutcomes == {"ok", "fail", "none", "throw"}

SingleErrorText(o) ==
  IF o = "fail" THEN MsgProvider ELSE IF o = "none" THEN MsgNoResults ELSE MsgNetwork

\* The store after the analyzer handled the outcome.
ItemsAfterSingle(prev, id, o) ==
  IF o = "ok"
    THEN SetCompleted(prev, id, ResultOf(ProviderResult))
    ELSE SetError(prev, id, SingleErrorText(o))

\* The records the analyzer hands to set<Type>Data: analyzeImage and analyzeText
\* store a record on every outcome, analyzeVideo only on success.
SingleRecords(kind, id, o) ==
  IF o = "ok"
    THEN <<[id |-> id, status |-> "ok", result |-> ResultOf(ProviderResult), error |-> NoError]>>
    ELSE IF kind = "video"
      THEN <<>>
      ELSE <<[id |-> id, status |-> "error", result |-> NoResult, error |-> SingleErrorText(o)]>>

ResultsAfterSingle(res, kind, snap, id, o) ==
  IF SingleRecords(kind, id, o) = <<>>
    THEN res
    ELSE MergeInto(res, kind, snap, SingleRecords(kind, id, o))

\* The analyzer up to its await: the item is marked processing and the request sent.
SingleBody(id) ==
  /\ Budget >= 1
  /\ items' = MarkProcessing(items, {id})
  /\ netCalls' = netCalls + 1
  /\ singles' = Put(singles, [id |-> id, snap |-> results[page], service |-> svc.selected])
  /\ ev' = [op |-> "SingleStart", ids |-> {id}, service |-> svc.selected]
  /\ UNCHANGED <<uploads, merged, svc, page, phase, storage, bootStorage, results, nextId, runs,
                 chunkProgress, gen>>

\* TextAnalysis: the Analyze button of a pending prompt, the Retry button of a
\* failed one.
AnalyzeClick(id) ==
  /\ Ready
  /\ page = "text"
  /\ HasId(items, id)
  /\ ItemById(items, id).status \in {"pending", "error"}
  /\ SingleBody(id)

\* The analyzer resumes with the outcome of its request.
SingleResponse(sg) ==
  /\ BagIn(sg, singles)
  /\ \E o \in SingleOutcomes :
       /\ items' = ItemsAfterSingle(items, sg.id, o)
       /\ results' = ResultsAfterSingle(results, page, sg.snap, sg.id, o)
       /\ storage' = PersistEffect(results')
       /\ ev' = [op |-> "SingleResponse", ids |-> {sg.id}, outcome |-> o, before |-> sg.snap]
  /\ singles' = Take(singles, sg)
  /\ UNCHANGED <<uploads, merged, svc, page, phase, bootStorage, nextId, runs, chunkProgress, gen, netCalls>>

----------------------------------------------------------------------------
\* The program as its user interface drives it.

Next ==
  \/ Mount
  \/ Hydrate
  \/ \E broken \in BOOLEAN : AddFile(broken)
  \/ \E id \in 1..MaxIds : Remove(id)
  \/ \E id \in 1..MaxIds, p \in Patches : Edit(id, p)
  \/ GenerateClick
  \/ \E r \in BagToSet(runs) : ChunkResponse(r)
  \/ \E r \in BagToSet(runs) : ChunkThrow(r)
  \/ \E r \in BagToSet(runs) : DelayElapsed(r)
  \/ \E id \in 1..MaxIds : AnalyzeClick(id)
  \/ \E sg \in BagToSet(singles) : SingleResponse(sg)

Spec == Init /\ [][Next]_vars

----------------------------------------------------------------------------
\* The handlers invoked directly.  analyzeImage / analyzeVideo are handed to the
\* table as onAnalyze, and analyzeAllImages / analyzeAllVideos do not depend on the
\* table's button guard: this specification adds their invocation on the image and
\* video pages to the behaviour of the user interface.

\* analyzeImage(image) / analyzeVideo(video) for an item that awaits analysis or
\* has failed (the two row actions an analyzer is bound to).
AnalyzeDirect(id) ==
  /\ Ready
  /\ page \in {"image", "video"}
  /\ HasId(items, id)
  /\ ItemById(items, id).status \in {"pending", "error"}
  /\ SingleBody(id)

\* analyzeAllImages() / analyzeAllVideos() called as a function.
BatchDirect ==
  /\ Ready
  /\ page \in {"image", "video"}
  /\ BatchBody(FALSE)
  /\ UNCHANGED <<uploads, merged, svc, page, phase, bootStorage, nextId, singles>>

NextHandlers ==
  \/ Mount
  \/ Hydrate
  \/ \E broken \in BOOLEAN : AddFile(broken)
  \/ \E id \in 1..MaxIds : Remove(id)
  \/ \E id \in 1..MaxIds, p \in Patches : Edit(id, p)
  \/ GenerateClick
  \/ BatchDirect
  \/ \E r \in BagToSet(runs) : ChunkResponse(r)
  \/ \E r \in BagToSet(runs) : ChunkThrow(r)
  \/ \E r \in BagToSet(runs) : DelayElapsed(r)
  \/ \E id \in 1..MaxIds : AnalyzeClick(id)
  \/ \E id \in 1..MaxIds : AnalyzeDirect(id)
  \/ \E sg \in BagToSet(singles) : SingleResponse(sg)

SpecHandlers == Init /\ [][NextHandlers]_vars

----------------------------------------------------------------------------
\* Properties of the batch pipeline.

\* The step just taken was the return of a batch run that had submitted a chunk.
RunReturned == ev.op \in {"ChunkResponse", "ChunkThrow"} /\ ev.returned

\* The items of the store that belonged to the selection of the returned run.
RunItems == {i \in DOMAIN items : items[i].id \in ev.run.sel}

\* C1: when a batch run returns, whether its last chunk got a success response,
\* a success=false response or a thrown request, no item of the store that was
\* part of the run has status processing.
C1_NoProcessingAfterRun ==
  RunReturned => \A i \in RunItems : items[i].status # "processing"

\* A two-chunk run aborted by a thrown request, its items still in the store.
C1_Witness ==
  /\ ev.op = "ChunkThrow"
  /\ ev.run.chunks = 2
  /\ Cardinality(RunItems) = 3
  /\ \E i \in RunItems : items[i].status = "error" /\ items[i].error = MsgNetwork

\* C2: after a run of two or more chunks that were all answered by a well-formed
\* success response, the results list holds a record for every item of the run
\* and every record it held before the run.
C2_AllChunksRecorded ==
  (RunReturned /\ ev.run.how = "done" /\ ev.run.chunks >= 2 /\ ev.run.allOk) =>
     /\ \A id \in ev.run.sel : HasId(results[page], id)
     /\ \A j \in DOMAIN ev.run.before :
          \E i \in DOMAIN results[page] : results[page][i] = ev.run.before[j]

\* C3: every results list holds at most one record per id.
C3_OneRecordPerId ==
  \A k \in Kinds : \A i, j \in DOMAIN results[k] :
     results[k][i].id = results[k][j].id => i = j

\* The status changes of the item life cycle.
AllowedChange ==
  {<<"pending", "processing">>, <<"processing", "completed">>,
   <<"processing", "error">>, <<"error", "processing">>}

\* C4: every change of an item's status is pending -> processing,
\* processing -> completed, processing -> error or error -> processing.
C4_StatusChanges ==
  [][\A i \in DOMAIN items, j \in DOMAIN items' :
       (items[i].id = items'[j].id /\ items[i].status # items'[j].status)
          => <<items[i].status, items'[j].status>> \in AllowedChange]_vars

\* C5: a completed item has a result and no error, a failed item an error and no
\* result, a pending or processing item neither.
C5_ResultXorError ==
  \A i \in DOMAIN items :
     /\ items[i].status = "completed" =>
          items[i].result # NoResult /\ items[i].error = NoError
     /\ items[i].status = "error" =>
          items[i].error # NoError /\ items[i].result = NoResult
     /\ items[i].status \in {"pending", "processing"} =>
          items[i].result = NoResult /\ items[i].error = NoError

\* The items of the store that belonged to the chunk just answered and whose
\* key has no entry in the response.
Unanswered ==
  {i \in DOMAIN items : items[i].id \in ev.chunk /\ ev.data.results[items[i].name] = "missing"}

\* C6: an item whose key is missing from a well-formed batch response, and an
\* item whose single-item response has no results, is in status error with the
\* message "No results received".
C6_NoResultsIsError ==
  /\ (ev.op = "ChunkResponse" /\ ev.data.success) =>
        \A i \in Unanswered :
           items[i].status = "error" /\ items[i].error = MsgNoResults
  /\ (ev.op = "SingleResponse" /\ ev.outcome = "none") =>
        \A i \in DOMAIN items : items[i].id \in ev.ids =>
           items[i].status = "error" /\ items[i].error = MsgNoResults

\* A well-formed response answered one item of a two-item chunk and left the
\* other without an entry.
C6_Witness ==
  /\ ev.op = "ChunkResponse"
  /\ ev.data.success
  /\ Unanswered # {}
  /\ \E i \in DOMAIN items : items[i].id \in ev.chunk /\ items[i].status = "completed"

\* for (let i = 0; i < n; i += chunkSize): the values i takes.
LoopIndices(n) == {i \in 0..(n - 1) : i % chunkSize = 0}

\* The chunks of the loop from index i on, concatenated in submission order.
RECURSIVE ConcatChunks(_, _)
ConcatChunks(todo, i) ==
  IF i >= Len(todo) THEN <<>> ELSE ChunkAt(todo, i) \o ConcatChunks(todo, i + chunkSize)

\* ceil(n / c) by its definition: the least k with k * c >= n.
Ceil(n, c) == CHOOSE k \in 0..n : k * c >= n /\ \A m \in 0..n : m * c >= n => k <= m

\* The partition of a selection by the loop: ceil(N / 2) chunks of 1 or 2 items
\* whose concatenation in submission order is the selection.
ChunkingOk(todo) ==
  LET n == Len(todo) IN
  /\ Cardinality(LoopIndices(n)) = Ceil(n, chunkSize)
  /\ CeilDiv(n, chunkSize) = Ceil(n, chunkSize)
  /\ \A i \in LoopIndices(n) : Len(ChunkAt(todo, i)) \in 1..chunkSize
  /\ ConcatChunks(todo, 0) = todo

\* Selections wider than the store of the model, for the partition alone.
MaxSel == 5
Selection(n) == [k \in 1..n |-> NewItem(k, FileName(k), "pending", NoError)]

\* C7: a run over N >= 1 selected items forms ceil(N / 2) chunks of 1 or 2 items
\* each, their concatenation in submission order is the selection, and a run
\* that ran to its end submitted exactly that many chunks.
C7_Chunking ==
  /\ \A r \in BagToSet(runs) :
        Len(r.todo) >= 1 /\ r.i \in LoopIndices(Len(r.todo)) /\ ChunkingOk(r.todo)
  /\ (RunReturned /\ ev.run.how = "done") =>
        ev.run.submitted = Ceil(Cardinality(ev.run.sel), chunkSize)
  /\ \A n \in 1..MaxSel : ChunkingOk(Selection(n))

\* A run over three items that is at its second chunk, of one item.
C7_Witness ==
  \E r \in BagToSet(runs) :
     Len(r.todo) = 3 /\ r.i = chunkSize /\ Len(ChunkAt(r.todo, r.i)) = 1

\* The ids of the items a batch run has to select.
PendingOrError(its) ==
  {its[i].id : i \in {j \in DOMAIN its : its[j].status \in {"pending", "error"}}}

\* C8: a batch run selects exactly the pending and the failed items; with none
\* of them it reports that there is nothing to analyze, sends no request and
\* leaves the item store, the results, the storage and the chunk progress as
\* they were.
C8_Selection ==
  [][/\ ev'.op = "BatchStart" =>
          /\ PendingOrError(items) # {}
          /\ ev'.ids = PendingOrError(items)
     /\ ev'.op = "BatchReturn" =>
          /\ PendingOrError(items) = {}
          /\ ev'.alert
          /\ UNCHANGED <<items, results, storage, chunkProgress, netCalls, runs>>]_vars

\* A batch run was invoked on a store that holds items, none of them pending or
\* failed, and returned at once.
C8_Witness ==
  /\ ev.op = "BatchReturn"
  /\ Len(items) > 0
  /\ chunkProgress.isProcessing

\* The store and the results after the single-item analyzer ran on item id with
\* outcome o, started from the store its and the results res.
SingleEnd(its, res, kind, id, o) ==
  [items   |-> ItemsAfterSingle(MarkProcessing(its, {id}), id, o),
   results |-> ResultsAfterSingle(res, kind, res[kind], id, o)]

\* The response of the batch endpoint that carries outcome o for a one-item chunk.
BatchData(chunk, o) ==
  [success |-> TRUE, error |-> NoError,
   results |-> [n \in NamesOf(chunk) |->
                  IF o = "ok" THEN "ok" ELSE IF o = "fail" THEN "fail" ELSE "missing"]]

\* The store and the results after a batch run over the selection of its, with
\* outcome o for its only chunk: a thrown request ends in the catch of the run.
BatchEnd(its, res, kind, o) ==
  LET chunk  == ChunkAt(Eligible(its), 0)
      marked == MarkProcessing(its, IdsOf(chunk))
  IN IF o = "throw"
       THEN [items |-> FailProcessing(marked, MsgNetwork), results |-> res]
       ELSE [items   |-> ItemsAfterChunk(marked, chunk, BatchData(chunk, o)),
             results |-> ResultsAfterChunk(res, kind, res[kind], chunk, BatchData(chunk, o))]

\* The store is at rest with exactly one item to analyse, on a page with both paths.
OneToAnalyse ==
  /\ Ready
  /\ page \in {"image", "video"}
  /\ runs = EmptyBag /\ singles = EmptyBag
  /\ Len(Eligible(items)) = 1

\* C9: for an image or video item and every outcome, the single-item analyzer
\* and a batch run over a selection of that item alone end with the same items
\* in the store and the same results list.
C9_SingleEqualsBatch ==
  OneToAnalyse =>
     \A o \in SingleOutcomes :
        SingleEnd(items, results, page, Eligible(items)[1].id, o)
           = BatchEnd(items, results, page, o)

\* C10: when start-up has finished, the results of the store and the storage
\* both hold the results lists the storage held when the application started.
C10_ReloadRestores ==
  ev.op = "Hydrate" => results = ev.before /\ storage = ev.before

----------------------------------------------------------------------------
\* Records, retries and the retry action.

\* The items of the store that belong to the chunk just answered or aborted and
\* have reached completed or error.
ChunkEnded ==
  {i \in DOMAIN items : items[i].id \in ev.chunk /\ items[i].status \in {"completed", "error"}}

\* C11: when an analysis attempt has ended, by a single-item response, a chunk
\* response or a thrown chunk request, the results list of the page holds a
\* record with the id of every item the attempt left completed or error.
C11_RecordOnEveryOutcome ==
  /\ ev.op \in {"ChunkResponse", "ChunkThrow"} =>
        \A i \in ChunkEnded : HasId(results[page], items[i].id)
  /\ ev.op = "SingleResponse" =>
        \A i \in DOMAIN items :
           (items[i].id \in ev.ids /\ items[i].status \in {"completed", "error"})
              => HasId(results[page], items[i].id)

\* The runs whose request in flight carries the chunk with the ids S.
FetchingChunk(S) ==
  {r \in BagToSet(runs) : r.pc = "fetch" /\ IdsOf(ChunkAt(r.todo, r.i)) = S}

\* The items of a chunk that were selected in status error: the retried ones.
Retried(chunk) == {chunk[i].id : i \in {j \in DOMAIN chunk : chunk[j].status = "error"}}

\* C12: a retried item is moved to processing, and when the response to the retry
\* reports success for it the item is completed with the result of the response
\* and without an error.
C12_RetryReplacesError ==
  [][/\ ev'.op = "BatchStart" =>
          \A r \in BagToSet(runs') : \A j \in DOMAIN items' :
             (/\ r.i = 0 /\ r.pc = "fetch" /\ IdsOf(r.todo) = ev'.ids
              /\ items'[j].id \in Retried(ChunkAt(r.todo, 0)))
                => items'[j].status = "processing" /\ items'[j].error = NoError
     /\ ev'.op \in {"ChunkStart", "SingleStart"} =>
          \A j \in DOMAIN items' :
             items'[j].id \in ev'.ids =>
                items'[j].status = "processing" /\ items'[j].error = NoError
     /\ (ev'.op = "ChunkResponse" /\ ev'.data.success) =>
          \A r \in FetchingChunk(ev'.chunk) : \A j \in DOMAIN items' :
             (/\ items'[j].id \in Retried(ChunkAt(r.todo, r.i))
              /\ ev'.data.results[items'[j].name] = "ok")
                => /\ items'[j].status = "completed"
                   /\ items'[j].result = ResultOf(ProviderResult)
                   /\ items'[j].error = NoError
     /\ (ev'.op = "SingleResponse" /\ ev'.outcome = "ok") =>
          \A j \in DOMAIN items' :
             items'[j].id \in ev'.ids =>
                /\ items'[j].status = "completed"
                /\ items'[j].result = ResultOf(ProviderResult)
                /\ items'[j].error = NoError]_vars

\* The page is at rest: nothing is in flight.
AtRest == Ready /\ runs = EmptyBag /\ singles = EmptyBag

\* C13: on the image and video pages, whenever an item is in status error and
\* nothing is in flight, the action that retries it (the Generate Metadata sweep,
\* the only retry the table offers) is enabled.
C13_RetryEnabled ==
  (/\ AtRest
   /\ page \in {"image", "video"}
   /\ \E i \in DOMAIN items : items[i].status = "error")
     => GenerateEnabled

----------------------------------------------------------------------------
\* The AI service selection.

\* handleServiceToggle behind the service button: the button of a service without
\* a configured key is disabled, the others select the service and store its id.
SelectService(id) ==
  /\ id \in svc.keys
  /\ id # svc.selected
  /\ svc' = [svc EXCEPT !.selected = id, !.stored = id]
  /\ ev' = [op |-> "SelectService", service |-> id]
  /\ UNCHANGED <<uploads, merged, page, phase, storage, bootStorage, results, items, nextId,
                 runs, singles, chunkProgress, gen, netCalls>>

\* A page constructed over any configuration of keys and any stored service id,
\* on a device without stored results.
InitProviders ==
  /\ page \in Kinds
  /\ \E keys \in SUBSET Providers, stored \in Providers \cup {NoStored} :
        svc = ServiceState(keys, stored, page)
  /\ phase = "boot"
  /\ storage = EmptyLists
  /\ bootStorage = storage
  /\ results = EmptyLists
  /\ items = <<>>
  /\ nextId = 0
  /\ runs = EmptyBag
  /\ singles = EmptyBag
  /\ chunkProgress = IdleProgress
  /\ gen = FALSE
  /\ netCalls = 0
  /\ uploads = NoUploads
  /\ merged = NoHistory
  /\ ev = [op |-> "Init"]

NextProviders ==
  \/ Mount
  \/ Hydrate
  \/ \E broken \in BOOLEAN : AddFile(broken)
  \/ \E id \in 1..MaxIds : Remove(id)
  \/ \E id \in 1..MaxIds, p \in Patches : Edit(id, p)
  \/ \E id \in Providers : SelectService(id)
  \/ GenerateClick
  \/ \E r \in BagToSet(runs) : ChunkResponse(r)
  \/ \E r \in BagToSet(runs) : ChunkThrow(r)
  \/ \E r \in BagToSet(runs) : DelayElapsed(r)
  \/ \E id \in 1..MaxIds : AnalyzeClick(id)
  \/ \E sg \in BagToSet(singles) : SingleResponse(sg)

SpecProviders == InitProviders /\ [][NextProviders]_vars

\* C14: every analysis request, single-item or batch, names a selected provider
\* whose API key is configured when the request is submitted.
C14_ProviderHasKey ==
  ev.op \in {"BatchStart", "ChunkStart", "SingleStart"} => ev.service \in svc.keys

----------------------------------------------------------------------------
\* Editing, adding and exporting.

\* The item it after the edit with patch p: only the result differs, the patched
\* fields carry the patch, the other result field is kept.
EditedAs(old, new, p) ==
  /\ new = [old EXCEPT !.result = new.result]
  /\ Len(new.result) = 1
  /\ new.result[1].title = p.title
  /\ new.result[1].category = p.category
  /\ old.result # NoResult => new.result[1].raw_response = old.result[1].raw_response

\* C15: edit(id, patch) changes only the result of the item with that id: the
\* patched fields take the patch's values, the other result fields keep theirs,
\* status, error and payload are unchanged, and so is every other item.
C15_EditFrame ==
  [][ev'.op = "Edit" =>
        /\ Len(items') = Len(items)
        /\ \E p \in Patches : \A i \in DOMAIN items :
              IF items[i].id \in ev'.ids
                THEN EditedAs(items[i], items'[i], p)
                ELSE items'[i] = items[i]]_vars

C15_Witness ==
  /\ ev.op = "Edit"
  /\ Len(items) >= 2
  /\ \E i \in DOMAIN items :
       /\ items[i].id \in ev.ids
       /\ items[i].status = "completed"
       /\ items[i].result = <<[title |-> "T2", category |-> "Animals", raw_response |-> "raw"]>>
  /\ \E i \in DOMAIN items : items[i].id \notin ev.ids /\ items[i].result = NoResult

\* The merge of the upstream selection state into the store (the effect on
\* selectedImages / selectedVideos / textPrompts): the entries whose id the store
\* does not hold yet are appended as pending items.
MergeSelectedAll(prev, selected) ==
  prev \o [k \in DOMAIN selected |-> NewItem(selected[k].id, selected[k].name, "pending", NoError)]

MergeSelected(prev, selected) ==
  LET fresh == SelectSeq(selected, LAMBDA s : ~HasId(prev, s.id)) IN
  prev \o [k \in DOMAIN fresh |-> NewItem(fresh[k].id, fresh[k].name, "pending", NoError)]

\* Upstream selections: lists of at most MaxUpstream entries with distinct ids.
MaxUpstream == 2
UpstreamEntry(id) == [id |-> id, name |-> FileName(id)]
UpstreamLists ==
  UNION {{[k \in 1..n |-> UpstreamEntry(f[k])] :
             f \in {g \in [1..n -> 1..MaxIds] : \A a, b \in 1..n : g[a] = g[b] => a = b}} :
         n \in 0..MaxUpstream}

UniqueIds(its) == \A i, j \in DOMAIN its : its[i].id = its[j].id => i = j
IsPrefix(old, new) == Len(old) <= Len(new) /\ SubSeq(new, 1, Len(old)) = old
EntersPending(it) == it.status = "pending" /\ it.result = NoResult /\ it.error = NoError
EntersFailed(it) == it.status = "error" /\ it.result = NoResult /\ it.error # NoError

\* What merging an upstream selection into store its may do: no id twice, the
\* items present keep their places, the items added are pending.
MergeOk(its) ==
  \A sel \in UpstreamLists : \A new \in {MergeSelected(its, sel)} :
     /\ UniqueIds(new)
     /\ IsPrefix(its, new)
     /\ \A k \in (Len(its) + 1)..Len(new) : EntersPending(new[k])

\* C16 as stated: no two items of the store have the same id, a merge of upstream
\* selection state adds no id already present, every item added enters pending with
\* null result and error, and the items already present keep their order.
C16_AddPendingUnique ==
  [][/\ UniqueIds(items')
     /\ MergeOk(items')
     /\ ev'.op = "Add" =>
          /\ IsPrefix(items, items')
          /\ \A k \in (Len(items) + 1)..Len(items') : EntersPending(items'[k])]_vars

\* C16, amended: as above, except that a video whose preprocessing failed enters
\* in status error with the failure's message and a null result.
C16_AddUnique ==
  [][/\ UniqueIds(items')
     /\ MergeOk(items')
     /\ ev'.op = "Add" =>
          /\ IsPrefix(items, items')
          /\ Len(items') = Len(items) + 1
          /\ \A k \in (Len(items) + 1)..Len(items') :
                \/ EntersPending(items'[k])
                \/ page = "video" /\ EntersFailed(items'[k])]_vars

C16_Witness ==
  /\ ev.op = "Add"
  /\ page = "video"
  /\ Len(items) = 3
  /\ items[3].id \in ev.ids
  /\ EntersFailed(items[3])
  /\ EntersPending(items[2])
  /\ MergeSelected(items, <<UpstreamEntry(3), UpstreamEntry(2)>>) = items

----------------------------------------------------------------------------
\* The CSV export: downloadCSV and getCategoryNumber.

\* CATEGORY_NUMBER_TO_NAME / CATEGORY_NAME_TO_NUMBER: the 21 category names in the
\* order of their numbers, and the legacy names.
CategoryNames ==
  <<"Animals", "Buildings and Architecture", "Business", "Drinks", "The Environment",
    "States of Mind", "Food", "Graphic Resources", "Hobbies and Leisure", "Industry",
    "Landscape", "Lifestyle", "People", "Plants and Flowers", "Culture and Religion",
    "Science", "Social Issues", "Sports", "Technology", "Transport", "Travel">>
LegacyNames ==
  [Buildings |-> 2, Environment |-> 5, Graphics |-> 8, Hobbies |-> 9, Plants |-> 14,
   Culture |-> 15]

\* parseInt of a category text that is a decimal numeral up to MaxNumeral; -1 for a
\* text that is not a number.
MaxNumeral == 30
ParseInt(text) ==
  IF \E n \in 0..MaxNumeral : ToString(n) = text
    THEN CHOOSE n \in 0..MaxNumeral : ToString(n) = text
    ELSE -1

\* getCategoryNumber, as the text the CSV cell shows: '-' for an empty category, a
\* number in 1..21 as it is, the number of a known name, else the value passed in.
getCategoryNumber(categoryName) ==
  IF categoryName = "" \/ categoryName = "-" THEN "-"
  ELSE IF ParseInt(categoryName) >= 1 /\ ParseInt(categoryName) <= 21
    THEN ToString(ParseInt(categoryName))
  ELSE IF \E n \in DOMAIN CategoryNames : CategoryNames[n] = categoryName
    THEN ToString(CHOOSE n \in DOMAIN CategoryNames : CategoryNames[n] = categoryName)
  ELSE IF categoryName \in DOMAIN LegacyNames
    THEN ToString(LegacyNames[categoryName])
  ELSE categoryName

Quoted(text) == "\"" \o text \o "\""
CsvHeader == <<"Filename", "Title", "Keywords", "Category", "Releases">>

\* One line of the file, as its list of cells: the model's results carry neither
\* keywords nor releases, whose cells are then '' and '-'.
CsvRow(it) ==
  <<Quoted(it.name), Quoted(it.result[1].title), Quoted(""),
    Quoted(getCategoryNumber(it.result[1].category)), Quoted("-")>>

completedItems(its) ==
  SelectSeq(its, LAMBDA it : it.status = "completed" /\ it.result # NoResult)

\* The lines of the file downloadCSV builds for store its.
CsvLines(its) ==
  <<CsvHeader>> \o [k \in DOMAIN completedItems(its) |-> CsvRow(completedItems(its)[k])]

\* The Download CSV button (enabled once an item is completed) and downloadCSV:
\* an alert and no file without a completed item, else the file.
DownloadCSV ==
  /\ Ready
  /\ \E i \in DOMAIN items : items[i].status = "completed"
  /\ ev' = IF completedItems(items) = <<>>
             THEN [op |-> "DownloadCSV", alert |-> TRUE, lines |-> <<>>]
             ELSE [op |-> "DownloadCSV", alert |-> FALSE, lines |-> CsvLines(items)]
  /\ UNCHANGED <<uploads, merged, svc, page, phase, storage, bootStorage, results, items, nextId, runs,
                 singles, chunkProgress, gen, netCalls>>

\* Stores to export: up to MaxRows items, each pending, failed or completed with a
\* category the service returned or the user typed into the edit form; a failed
\* item is one the service reported a provider error for.
MaxRows == 2
ExportCategories == {"Animals", "Travel", "Plants", "Nature", "", "7", "22"}
ExportItem(id, shape) ==
  IF shape = "pending" THEN NewItem(id, FileName(id), "pending", NoError)
  ELSE IF shape = "error" THEN NewItem(id, FileName(id), "error", MsgProvider)
  ELSE [NewItem(id, FileName(id), "completed", NoError) EXCEPT
          !.result = <<[ProviderResult EXCEPT !.category = shape]>>]
ExportStores ==
  UNION {{[k \in 1..n |-> ExportItem(k, f[k])] :
             f \in [1..n -> {"pending", "error"} \cup ExportCategories]} :
         n \in 0..MaxRows}

\* The records the analyses of store its left in the Shared Result Store.
ExportRecords(its) ==
  LET done == SelectSeq(its, LAMBDA it : it.status \in {"completed", "error"}) IN
  [k \in DOMAIN done |->
     IF done[k].status = "completed"
       THEN [id |-> done[k].id, status |-> "ok", result |-> ResultOf(ProviderResult),
             error |-> NoError]
       ELSE [id |-> done[k].id, status |-> "error", result |-> NoResult,
             error |-> done[k].error]]

InitExport ==
  /\ page \in Kinds
  /\ svc = ServiceState(Providers, NoStored, page)
  /\ phase = "ready"
  /\ items \in ExportStores
  /\ nextId = Len(items)
  /\ results = [EmptyLists EXCEPT ![page] = ExportRecords(items)]
  /\ storage = PersistEffect(results)
  /\ bootStorage = EmptyLists
  /\ runs = EmptyBag
  /\ singles = EmptyBag
  /\ chunkProgress = IdleProgress
  /\ gen = FALSE
  /\ netCalls = 0
  /\ uploads = NoUploads
  /\ merged = NoHistory
  /\ ev = [op |-> "Init"]

NextExport ==
  \/ DownloadCSV
  \/ GenerateClick
  \/ \E r \in BagToSet(runs) : ChunkResponse(r)
  \/ \E r \in BagToSet(runs) : ChunkThrow(r)

SpecExport == InitExport /\ [][NextExport]_vars

\* The rows of the file and the items they stand for, in store order.
RowsMatchItems ==
  /\ ev.lines[1] = CsvHeader
  /\ Len(ev.lines) = 1 + Len(completedItems(items))
  /\ \A k \in DOMAIN completedItems(items) :
        /\ ev.lines[k + 1][1] = Quoted(completedItems(items)[k].name)
        /\ ev.lines[k + 1][2] = Quoted(completedItems(items)[k].result[1].title)

\* C17: the export is the header followed by one row per completed item with a
\* result, in store order, no row for any other item, and the Category cell of
\* every row is a numeric code in 1..21.
C17_CsvExport ==
  ev.op = "DownloadCSV" =>
     /\ ~ev.alert
     /\ RowsMatchItems
     /\ \A k \in 2..Len(ev.lines) : ev.lines[k][4] \in {Quoted(ToString(n)) : n \in 1..21}

----------------------------------------------------------------------------
\* Concurrent completions, the order of chunks and chunk-level failures.

\* The records merged into the store while the analysis that just completed was
\* in flight: those of the store that its snapshot does not hold.
MergedMeanwhile ==
  {i \in DOMAIN results[page] :
      \A j \in DOMAIN ev'.before : ev'.before[j] # results[page][i]}

\* C18: when single-item analyses of distinct items are in flight together and
\* complete, the later merge keeps the record merged by the earlier completion.
C18_NoLostRecord ==
  [][ev'.op = "SingleResponse" =>
        \A i \in MergedMeanwhile : HasId(results'[page], results[page][i].id)]_vars

\* The items of the store that are in processing and belong to run r's selection.
Busy(its, r) ==
  {j \in DOMAIN its : its[j].status = "processing" /\ its[j].id \in IdsOf(r.todo)}

\* Run r between two steps: one request in flight for its current chunk, or the
\* delay before the next chunk.
RunInOrder(its, r) ==
  /\ r.pc \in {"fetch", "delay"}
  /\ r.i % chunkSize = 0 /\ r.i < Len(r.todo)
  /\ r.pc = "delay" => Busy(its, r) = {} /\ r.i + chunkSize < Len(r.todo)
  /\ r.pc = "fetch" =>
        /\ Cardinality(Busy(its, r)) <= chunkSize
        /\ \A j \in Busy(its, r) : its[j].id \in IdsOf(ChunkAt(r.todo, r.i))

\* C19: a run has at most one chunk request in flight and at most chunkSize items
\* in processing; chunk k+1 is submitted only after the outcomes of chunk k were
\* applied and the delay elapsed, chunks go in selection order, and no delay is
\* waited after the last chunk.
C19_OneChunkAtATime ==
  [][/\ \A r \in BagToSet(runs') : RunInOrder(items', r)
     /\ ev'.op = "BatchStart" =>
          \E r \in BagToSet(runs') :
             /\ r.pc = "fetch" /\ r.i = 0 /\ IdsOf(r.todo) = ev'.ids
             /\ runs' = Put(runs, r)
     /\ ev'.op = "ChunkStart" =>
          \E r \in BagToSet(runs) :
             /\ r.pc = "delay"
             /\ Busy(items, r) = {}
             /\ ev'.ids = IdsOf(ChunkAt(r.todo, r.i + chunkSize))
             /\ runs' = Put(Take(runs, r), [r EXCEPT !.pc = "fetch", !.i = r.i + chunkSize])
     /\ (ev'.op = "ChunkResponse" /\ ev'.returned) =>
          \E r \in BagToSet(runs) :
             /\ r.pc = "fetch" /\ r.i + chunkSize >= Len(r.todo)
             /\ runs' = Take(runs, r)]_vars

C19_Witness ==
  /\ ev.op = "ChunkStart"
  /\ \E r \in BagToSet(runs) :
       /\ r.pc = "fetch" /\ r.i = chunkSize /\ Len(r.todo) = 3
       /\ Cardinality(Busy(items, r)) = 1
       /\ \E j \in DOMAIN items : items[j].id \in IdsOf(ChunkAt(r.todo, 0))

\* The items of the failed chunk after the failure: the ones in processing are
\* failed with msg, the others are as they were.
ChunkFailedWith(msg) ==
  /\ Len(items') = Len(items)
  /\ \A j \in DOMAIN items :
        items[j].id \in ev'.chunk =>
           IF items[j].status = "processing"
             THEN items'[j] = [items[j] EXCEPT !.status = "error", !.error = msg]
             ELSE items'[j] = items[j]

\* C20: when a chunk fails at the chunk level (success=false or no results map, or
\* the request throws), every item of the chunk still in processing becomes error
\* with the response's error, else the generic message, else the exception's
\* message; the items of the chunk no longer in processing are left unchanged.
C20_ChunkFailure ==
  [][/\ (ev'.op = "ChunkResponse" /\ ~ev'.data.success) =>
          ChunkFailedWith(IF ev'.data.error # NoError THEN ev'.data.error ELSE MsgAnalysisFailed)
     /\ ev'.op = "ChunkThrow" => ChunkFailedWith(MsgNetwork)]_vars

C20_Witness ==
  /\ ev.op = "ChunkResponse"
  /\ ~ev.data.success
  /\ ev.data.error = MsgBatch
  /\ \E j \in DOMAIN items :
       items[j].id \in ev.chunk /\ items[j].status = "error" /\ items[j].error = MsgNetwork

----------------------------------------------------------------------------
\* Runs that fail, items removed in flight, and the merge of a chunk.

\* C21: after a batch run returns, every item of its selection still in the store
\* is completed or error, none is left pending, also when the request of an
\* earlier chunk throws: every chunk of the run was submitted.
C21_RunFinishesAll ==
  RunReturned =>
     /\ ev.run.submitted = ev.run.chunks
     /\ \A i \in RunItems : items[i].status \in {"completed", "error"}

\* The ids the outcome applied by the step just taken was for.
OutcomeIds ==
  IF ev'.op = "SingleResponse" THEN ev'.ids ELSE ev'.chunk

\* C22: a status update for an id that is not in the store leaves the store
\* unchanged: the outcome (success, failure or abort) of an analysis whose item was
\* removed in flight does not re-insert the item and changes no other item.
C22_AbsentIdNoOp ==
  [][ev'.op \in {"ChunkResponse", "ChunkThrow", "SingleResponse"} =>
        /\ Len(items') = Len(items)
        /\ \A j \in DOMAIN items :
              items[j].id \notin OutcomeIds => items'[j] = items[j]]_vars

\* How many records of list recs carry id.
RecordsWith(recs, id) == Len(SelectSeq(recs, LAMBDA rec : rec.id = id))

\* C23: when an item was deleted while its analysis request was in flight, the
\* response adds no record with that item's id to the Shared Result Store.
C23_RemovedIsDropped ==
  [][ev'.op \in {"ChunkResponse", "SingleResponse"} =>
        \A id \in OutcomeIds :
           ~HasId(items, id) =>
              RecordsWith(results'[page], id) <= RecordsWith(results[page], id)]_vars

----------------------------------------------------------------------------
\* The merge of a chunk's outcomes.

\* The application with the history of merges switched on.
InitMerges ==
  /\ page \in Kinds
  /\ svc = ServiceState(Providers, NoStored, page)
  /\ phase = "boot"
  /\ storage \in [Kinds -> {<<>>, <<OldRecord>>}]
  /\ bootStorage = storage
  /\ results = EmptyLists
  /\ items = <<>>
  /\ nextId = 0
  /\ runs = EmptyBag
  /\ singles = EmptyBag
  /\ chunkProgress = IdleProgress
  /\ gen = FALSE
  /\ netCalls = 0
  /\ uploads = NoUploads
  /\ merged = [NoHistory EXCEPT !.on = TRUE]
  /\ ev = [op |-> "Init"]

SpecMerges == InitMerges /\ [][Next]_vars

\* The records the Shared Result Store of the mounted page holds.
Stored == {results[page][k] : k \in DOMAIN results[page]}

\* C24: all outcomes of one chunk are merged in a single update: in every
\* reachable state the Shared Result Store holds either none or all of the
\* records produced from a given chunk response, never only part of them.
C24_AllOrNone ==
  \A G \in merged.groups : G \subseteq Stored \/ G \cap Stored = {}

\* A response for a chunk of two items was merged, both records are in the store.
C24_Witness ==
  \E G \in merged.groups : Cardinality(G) = 2 /\ G \subseteq Stored

----------------------------------------------------------------------------
\* The progress of a batch run.

\* C25: during a batch run over N selected items the progress has isProcessing
\* = true and totalChunks = ceil(N/2), and currentChunk is k while the request of
\* chunk k is in flight, never above totalChunks; when the run ends, by its last
\* chunk or by a thrown error, the progress is reset to 0, 0, false.
C25_Progress ==
  /\ \A r \in BagToSet(runs) :
        /\ chunkProgress.isProcessing
        /\ chunkProgress.totalChunks = CeilDiv(Len(r.todo), chunkSize)
        /\ chunkProgress.currentChunk <= chunkProgress.totalChunks
        /\ r.pc = "fetch" => chunkProgress.currentChunk = ChunkNumber(r.i)
  /\ RunReturned => chunkProgress = IdleProgress

----------------------------------------------------------------------------
\* The outcome of an item is looked up by its display name.

\* The items of the store the response just handled was for.
Resolved == {i \in DOMAIN items' : items'[i].id \in ev'.chunk}

\* C26: within a chunk each item's outcome is the one the response holds under
\* the item's display name: completed with the entry's fields when the entry's
\* first element has success = true, error with that element's error otherwise;
\* two items of the same chunk that share a display name end with the same
\* status, result and error.
C26_OutcomeByName ==
  [][(ev'.op = "ChunkResponse" /\ ev'.data.success) =>
        /\ \A i \in Resolved :
              /\ ev'.data.results[items'[i].name] = "ok" =>
                    /\ items'[i].status = "completed"
                    /\ items'[i].result = ResultOf(ProviderResult)
              /\ ev'.data.results[items'[i].name] = "fail" =>
                    /\ items'[i].status = "error"
                    /\ items'[i].error = MsgProvider
        /\ \A i, j \in Resolved :
              items'[i].name = items'[j].name =>
                 /\ items'[i].status = items'[j].status
                 /\ items'[i].result = items'[j].result
                 /\ items'[i].error = items'[j].error]_vars

----------------------------------------------------------------------------
\* The upload of videos: handleFiles and the frame extractor.

MsgCanvas == "Could not get canvas context"
MsgLoad == "Error loading video file"
MsgCapture == "Frame capture failed"

\* What happens to a file in the extractor: it plays, the canvas gives no 2d
\* context, the duration stays unresolved after the forced seek, the element
\* reports a load error, drawing a frame throws.
Hows == {"plays", "noContext", "noDuration", "loadError", "captureError"}
MaxFiles == 2
numFrames == 8
FileLists == UNION {[1..n -> Hows] : n \in 0..MaxFiles}

\* extractFramesFromVideo up to the first event: the object URL is created, and
\* the promise is rejected at once when the canvas has no context.
BeginExtract(u) ==
  IF u.files[u.i] = "noContext"
    THEN [u EXCEPT !.pc = "rejected", !.err = MsgCanvas, !.url = "live", !.got = 0]
    ELSE [u EXCEPT !.pc = "loading", !.err = NoError, !.url = "live", !.got = 0]

\* handleFiles up to its first await.  An empty selection alerts and returns.
\* The ids of the videos are unique tokens, numbered here in the order of the files.
HandleFiles(files) ==
  /\ Ready
  /\ page = "video"
  /\ nextId + Len(files) <= MaxIds
  /\ IF Len(files) = 0
       THEN /\ ev' = [op |-> "HandleFiles", alert |-> TRUE]
            /\ UNCHANGED <<uploads, nextId>>
       ELSE /\ uploads' = [uploads EXCEPT !.calls =
                            Put(@, BeginExtract([files |-> files, base |-> nextId, i |-> 1,
                                                 pc |-> "loading", err |-> NoError,
                                                 url |-> "none", got |-> 0,
                                                 newVideos |-> <<>>]))]
            /\ nextId' = nextId + Len(files)
            /\ ev' = [op |-> "HandleFiles", alert |-> FALSE]
  /\ UNCHANGED <<merged, svc, page, phase, storage, bootStorage, results, items, runs,
                 singles, chunkProgress, gen, netCalls>>

\* One invocation u of handleFiles moves on to u2.
Moves(u, u2, op) ==
  /\ uploads' = [uploads EXCEPT !.calls = Put(Take(@, u), u2)]
  /\ ev' = [op |-> op]
  /\ UNCHANGED <<merged, svc, page, phase, storage, bootStorage, results, items, nextId,
                 runs, singles, chunkProgress, gen, netCalls>>

\* video.onerror
OnError(u) ==
  /\ BagIn(u, uploads.calls)
  /\ u.pc = "loading"
  /\ u.files[u.i] = "loadError"
  /\ Moves(u, [u EXCEPT !.pc = "rejected", !.err = MsgLoad, !.url = "revoked"], "OnError")

\* video.onloadedmetadata, through the forced seek and its wait.
OnLoadedMetadata(u) ==
  /\ BagIn(u, uploads.calls)
  /\ u.pc = "loading"
  /\ u.files[u.i] # "loadError"
  /\ Moves(u, IF u.files[u.i] = "noDuration"
                THEN [u EXCEPT !.pc = "rejected", !.err = MsgDuration, !.url = "revoked"]
                ELSE [u EXCEPT !.pc = "capturing"],
           "OnLoadedMetadata")

\* The seeked event of captureFrame: the frame is drawn and kept, or drawing throws;
\* after the last frame the URL is released and the promise resolved.
Captured(u) ==
  IF u.got + 1 = numFrames
    THEN [u EXCEPT !.got = @ + 1, !.pc = "resolved", !.url = "revoked"]
    ELSE [u EXCEPT !.got = @ + 1]

OnSeeked(u) ==
  /\ BagIn(u, uploads.calls)
  /\ u.pc = "capturing"
  /\ \/ /\ u.files[u.i] = "captureError"
        /\ Moves(u, [u EXCEPT !.pc = "rejected", !.err = MsgCapture, !.url = "revoked"],
                 "OnSeeked")
     \/ /\ u.files[u.i] = "captureError" => u.got + 1 < numFrames
        /\ Moves(u, Captured(u), "OnSeeked")

\* A video object that keeps the frames captured before the failure.
NewVideoKeepsFrames(u) ==
  IF u.pc = "resolved"
    THEN [id |-> u.base + u.i, status |-> "pending", error |-> NoError, frames |-> u.got]
    ELSE [id |-> u.base + u.i, status |-> "error", error |-> u.err, frames |-> u.got]

\* The video object handleFiles builds once the extractor settled.
NewVideo(u) ==
  IF u.pc = "resolved"
    THEN [id |-> u.base + u.i, status |-> "pending", error |-> NoError, frames |-> u.got]
    ELSE [id |-> u.base + u.i, status |-> "error", error |-> u.err, frames |-> 0]

\* The items appended for the videos of one invocation, and their frames.
VideoItems(nv) ==
  [k \in DOMAIN nv |-> NewItem(nv[k].id, FileName(nv[k].id), nv[k].status, nv[k].error)]
FramesOf(nv) == [id \in {nv[k].id : k \in DOMAIN nv} |->
                   nv[CHOOSE k \in DOMAIN nv : nv[k].id = id].frames]

\* handleFiles resumes after the await: the video is pushed, and the loop starts
\* the extractor for the next file or appends the videos to the store.
Settled(u) ==
  LET nv == Append(u.newVideos, NewVideo(u)) IN
  /\ BagIn(u, uploads.calls)
  /\ u.pc \in {"resolved", "rejected"}
  /\ IF u.i < Len(u.files)
       THEN /\ uploads' = [uploads EXCEPT !.calls =
                            Put(Take(@, u), BeginExtract([u EXCEPT !.i = @ + 1, !.newVideos = nv]))]
            /\ ev' = [op |-> "Settled"]
            /\ UNCHANGED items
       ELSE /\ uploads' = [calls |-> Take(uploads.calls, u),
                           frames |-> FramesOf(nv) @@ uploads.frames]
            /\ items' = items \o VideoItems(nv)
            /\ ev' = [op |-> "UploadDone", files |-> u.files, base |-> u.base,
                      before |-> items]
  /\ UNCHANGED <<merged, svc, page, phase, storage, bootStorage, results, nextId, runs,
                 singles, chunkProgress, gen, netCalls>>

InitUpload ==
  /\ page = "video"
  /\ svc = ServiceState(Providers, NoStored, page)
  /\ phase = "boot"
  /\ storage = EmptyLists
  /\ bootStorage = storage
  /\ results = EmptyLists
  /\ items = <<>>
  /\ nextId = 0
  /\ runs = EmptyBag
  /\ singles = EmptyBag
  /\ chunkProgress = IdleProgress
  /\ gen = FALSE
  /\ netCalls = 0
  /\ uploads = NoUploads
  /\ merged = NoHistory
  /\ ev = [op |-> "Init"]

NextUpload ==
  \/ Mount
  \/ Hydrate
  \/ \E files \in FileLists : HandleFiles(files)
  \/ \E u \in BagToSet(uploads.calls) : OnError(u)
  \/ \E u \in BagToSet(uploads.calls) : OnLoadedMetadata(u)
  \/ \E u \in BagToSet(uploads.calls) : OnSeeked(u)
  \/ \E u \in BagToSet(uploads.calls) : Settled(u)
  \/ \E id \in 1..MaxIds : Remove(id)
  \/ GenerateClick
  \/ \E r \in BagToSet(runs) : ChunkResponse(r)
  \/ \E r \in BagToSet(runs) : ChunkThrow(r)
  \/ \E r \in BagToSet(runs) : DelayElapsed(r)

SpecUpload == InitUpload /\ [][NextUpload]_vars

\* The message the extractor rejects with for a file.
FailureMessage(how) ==
  IF how = "noContext" THEN MsgCanvas
  ELSE IF how = "noDuration" THEN MsgDuration
  ELSE IF how = "loadError" THEN MsgLoad
  ELSE MsgCapture

\* C27: when preprocessing of an uploaded video fails, exactly that file yields
\* an item with status error, the failure message and no frames; the files after
\* it are still preprocessed; the store gains exactly one item per accepted
\* file, in upload order.
C27_UploadOutcome ==
  [][ev'.op = "UploadDone" =>
        /\ Len(items') = Len(items) + Len(ev'.files)
        /\ SubSeq(items', 1, Len(items)) = items
        /\ \A k \in DOMAIN ev'.files :
              \A it \in {items'[Len(items) + k]} :
                 /\ it.id = ev'.base + k
                 /\ it.id \in DOMAIN uploads'.frames
                 /\ IF ev'.files[k] = "plays"
                      THEN /\ it.status = "pending"
                           /\ it.error = NoError
                           /\ uploads'.frames[it.id] = numFrames
                      ELSE /\ it.status = "error"
                           /\ it.error = FailureMessage(ev'.files[k])
                           /\ uploads'.frames[it.id] = 0]_vars

\* An upload of two files ended whose first file failed in a frame capture and
\* whose second file was preprocessed.
C27_Witness ==
  /\ ev.op = "UploadDone"
  /\ ev.files = <<"captureError", "plays">>
  /\ Len(items) >= 2
  /\ items[Len(items) - 1].status = "error"
  /\ items[Len(items)].status = "pending"

\* C28: every run of the frame extractor that ended, by resolving or by rejecting
\* on any path, has released the object URL it allocated.
C28_UrlReleased ==
  \A u \in BagToSet(uploads.calls) :
     u.pc \in {"resolved", "rejected"} => u.url = "revoked"

\* The ids of the videos the request just sent carries.
Submitted ==
  IF ev'.op = "BatchStart" THEN IdsOf(ChunkAt(Eligible(items), 0)) ELSE ev'.ids

\* C29: every item carried in a batch request has a non-empty payload: a video
\* whose preprocessing failed (no frames) is never submitted by a batch sweep.
C29_PayloadNotEmpty ==
  [][ev'.op \in {"BatchStart", "ChunkStart"} =>
        \A id \in Submitted : uploads.frames[id] > 0]_vars

----------------------------------------------------------------------------
\* The image preprocessor: compressImageDataUrl.

MaxSide == 8
MaxDim == 6

Max(a, b) == IF a > b THEN a ELSE b

\* Math.min(1, maxDimension / Math.max(width, height)) as a fraction, without the
\* cap at 1.
ScaleUncapped(width, height, maxDimension) ==
  [num |-> maxDimension, den |-> Max(width, height)]

\* Math.min(1, maxDimension / Math.max(width, height)) as a fraction.
Scale(width, height, maxDimension) ==
  IF maxDimension >= Max(width, height)
    THEN [num |-> 1, den |-> 1]
    ELSE [num |-> maxDimension, den |-> Max(width, height)]

\* Math.round(side * scale): the nearest integer, a half rounded up.  The product
\* is a floating-point number, so a product that is exactly a half away from two
\* integers may come out on either side of the half.
Rounded(side, scale) ==
  IF (2 * side * scale.num) % (2 * scale.den) = scale.den
    THEN {(side * scale.num) \div scale.den, (side * scale.num) \div scale.den + 1}
    ELSE {(2 * side * scale.num + scale.den) \div (2 * scale.den)}

\* imgEl.onload: the size of the canvas the image is drawn to.
Compress ==
  /\ ev.op = "Image"
  /\ \E tw \in Rounded(ev.width, Scale(ev.width, ev.height, ev.maxDimension)),
        th \in Rounded(ev.height, Scale(ev.width, ev.height, ev.maxDimension)) :
       ev' = [op |-> "Compressed", width |-> ev.width, height |-> ev.height,
              maxDimension |-> ev.maxDimension, targetWidth |-> tw, targetHeight |-> th]
  /\ UNCHANGED <<uploads, merged, svc, page, phase, storage, bootStorage, results, items,
                 nextId, runs, singles, chunkProgress, gen, netCalls>>

\* imgEl.onerror: the data URL is handed back as it came.
DecodeFails ==
  /\ ev.op = "Image"
  /\ ev' = [op |-> "Original", width |-> ev.width, height |-> ev.height,
            maxDimension |-> ev.maxDimension]
  /\ UNCHANGED <<uploads, merged, svc, page, phase, storage, bootStorage, results, items,
                 nextId, runs, singles, chunkProgress, gen, netCalls>>

\* The preprocessor called with an image of some size and some max dimension.
InitCompress ==
  /\ page = "image"
  /\ svc = ServiceState(Providers, NoStored, page)
  /\ phase = "boot"
  /\ storage = EmptyLists
  /\ bootStorage = storage
  /\ results = EmptyLists
  /\ items = <<>>
  /\ nextId = 0
  /\ runs = EmptyBag
  /\ singles = EmptyBag
  /\ chunkProgress = IdleProgress
  /\ gen = FALSE
  /\ netCalls = 0
  /\ uploads = NoUploads
  /\ merged = NoHistory
  /\ ev \in [op : {"Image"}, width : 1..MaxSide, height : 1..MaxSide,
             maxDimension : 1..MaxDim]

NextCompress == Compress \/ DecodeFails

SpecCompress == InitCompress /\ [][NextCompress]_vars

\* target is side scaled by maxDimension / longest, rounded to an integer.
ScaledBy(target, side, maxDimension, longest) ==
  /\ 2 * target * longest <= 2 * side * maxDimension + longest
  /\ 2 * target * longest >= 2 * side * maxDimension - longest

\* C30: for an image of width w and height h and max dimension M the output
\* size is (w, h) when max(w, h) <= M, and otherwise its larger side does not
\* exceed M and its sides are w and h scaled by M / max(w, h), rounded to
\* integers; an image is never upscaled.
C30_CompressSize ==
  ev.op = "Compressed" =>
     /\ ev.targetWidth <= ev.width
     /\ ev.targetHeight <= ev.height
     /\ IF Max(ev.width, ev.height) <= ev.maxDimension
          THEN ev.targetWidth = ev.width /\ ev.targetHeight = ev.height
          ELSE /\ Max(ev.targetWidth, ev.targetHeight) <= ev.maxDimension
               /\ ScaledBy(ev.targetWidth, ev.width, ev.maxDimension,
                           Max(ev.width, ev.height))
               /\ ScaledBy(ev.targetHeight, ev.height, ev.maxDimension,
                           Max(ev.width, ev.height))

\* An image larger than the max dimension was scaled down, its shorter side to a
\* product that is not an integer.
C30_Witness ==
  /\ ev.op = "Compressed"
  /\ ev.width > ev.maxDimension
  /\ ev.width > ev.height
  /\ ev.targetWidth = ev.maxDimension
  /\ (ev.height * ev.maxDimension) % ev.width # 0
====
